---- MODULE Spec2Model ----
(***************************************************************************)
(* batzenca: releases of mailing-list key sets and the policy checks on    *)
(* keys.  Release, ReleaseKeyAssociation (batzenca/database/releases.py),  *)
(* Policy (paleca/policies.py) and the Key methods they call               *)
(* (batzenca/database/keys.py).                                            *)
(***************************************************************************)
EXTENDS Integers, Sequences, FiniteSets, TLC

VARIABLES
    releases,     \* every Release object constructed so far, by creation order
    mlreleases,   \* MailingList.releases: the collection behind Release.mailinglist
    ret,          \* the last call: its name, arguments and outcome
    calls         \* the number of calls counted against MaxCalls

vars == <<releases, mlreleases, ret, calls>>

-----------------------------------------------------------------------------
(* Bounds of the model *)

MaxCalls    == 3      \* calls made in one behaviour
MaxReleases == 2      \* Release objects constructed in one behaviour
MaxAssocs   == 3      \* associations held by one Release
MaxDate     == 2      \* dates are 1..MaxDate
MaxDepth    == 2      \* explicit pruning depths are 1..MaxDepth
MaxInitKeys == 2      \* keys passed to Release(...) in one call

-----------------------------------------------------------------------------
(* Values *)

\* Python's None (an unset id, date, policy, peer, expiration date or list).
None == 0

Dates == 1 .. MaxDate

\* datetime.date.today(): a behaviour happens within one day
Today == MaxDate

\* delete_old_inactive_keys(releasecount=True): True stands for 5.
DefaultReleaseCount == 5

-----------------------------------------------------------------------------
(* The GnuPG backend: what session.gnupg answers for each key of the       *)
(* key ring.  A fixed key ring; every combination the operations below     *)
(* distinguish occurs in it.                                               *)

CAs == {1, 2}

Keys == {1, 2, 3}

\* a key of the key ring that has no peer (Key.peer is None)
OrphanKey == 4

AllKeys == Keys \cup {OrphanKey}

\* GPGME public key algorithm identifiers and their names
AlgIds == {1, 17}

alg_to_str == [a \in AlgIds |-> IF a = 1 THEN "RSA" ELSE "DSA"]

AlgNames == {alg_to_str[a] : a \in AlgIds}

\* gpgobj.str_to_alg[name], defined for the names of algorithms only: any
\* other string (the empty string) is a KeyError.
str_to_alg(name) == CHOOSE a \in AlgIds : alg_to_str[a] = name

\* Key.peer
peer(k) == IF k = OrphanKey THEN None ELSE (k + 1) \div 2

\* Key.__nonzero__: session.gnupg.key_okay(kid)
key_okay(k) == k # 3

\* Key.is_signed_by(signer): key_any_uid_is_signed_by(kid, signer.kid)
is_signed_by(k, ca) == ~(k = 2 /\ ca = 2)

\* Key.__len__: key_min_len(kid)
key_len(k) == IF k = 3 THEN 1 ELSE 2

\* Key.expires(): key_expires(kid), None for a key that never expires
expires(k) == IF k = 2 THEN None ELSE k

\* Key.algorithms: key_pubkey_algos(kid)
algorithms(k) == IF k = 3 THEN {1, 17} ELSE {1}

\* what Policy's checks read of a key
KeyFacts(k) ==
    [len        |-> key_len(k),
     expires    |-> expires(k),
     algorithms |-> algorithms(k),
     signers    |-> {ca \in CAs : is_signed_by(k, ca)}]

-----------------------------------------------------------------------------
(* Policy (paleca/policies.py) *)

\* ",".join(algs) followed by split(","): the empty string splits into one
\* empty string, any other into its names.
Join(names) == names

Split(str) == IF str = <<>> THEN <<"">> ELSE str

\* Policy.__init__: the fields the checks read
Policy(ca, keylen, key_lifespan, algs) ==
    [ca             |-> ca,
     key_len        |-> keylen,
     key_lifespan   |-> key_lifespan,
     algorithms_str |-> Join(algs)]

\* Policy.algorithms (property) raises KeyError for a part that names no
\* algorithm
AlgorithmsRaises(pol) ==
    LET parts == Split(pol.algorithms_str)
    IN  \E i \in DOMAIN parts : parts[i] \notin AlgNames

\* Policy.algorithms (property)
PolicyAlgorithms(pol) ==
    LET parts == Split(pol.algorithms_str)
    IN  {str_to_alg(parts[i]) : i \in DOMAIN parts}

\* The outcome of one sub-check: what it returns ("True", "False") or the
\* exception it raises, and whether it warned with a PolicyViolation.
Outcome(result, warned) == [result |-> result, warned |-> warned]

\* Policy.check_length
check_length(pol, key) ==
    IF key.len < pol.key_len
    THEN Outcome("False", TRUE)
    ELSE Outcome("True", FALSE)

\* Policy.check_algorithms
check_algorithms(pol, key) ==
    IF AlgorithmsRaises(pol) THEN Outcome("KeyError", FALSE)
    ELSE IF PolicyAlgorithms(pol) = {} THEN Outcome("True", FALSE)
    ELSE IF ~(key.algorithms \subseteq PolicyAlgorithms(pol))
         THEN Outcome("False", TRUE)
         ELSE Outcome("True", FALSE)

\* Policy.check_expiration; date < None is a TypeError
check_expiration(pol, key) ==
    IF key.expires = None /\ pol.key_lifespan > 0
    THEN Outcome("False", TRUE)
    ELSE LET max_expiry == Today + pol.key_lifespan
         IN  IF key.expires = None THEN Outcome("TypeError", FALSE)
             ELSE IF max_expiry < key.expires
                  THEN Outcome("False", TRUE)
                  ELSE Outcome("True", FALSE)

\* Policy.check_ca_signature
check_ca_signature(pol, key) ==
    IF pol.ca \notin key.signers
    THEN Outcome("False", TRUE)
    ELSE Outcome("True", FALSE)

IsException(o) == o.result \notin {"True", "False"}

\* ret &= ...
And(a, b) == IF a = "True" /\ b = "True" THEN "True" ELSE "False"

\* Policy.check: the sub-checks in order; an exception of one ends the call.
\* ran: the sub-checks called; violations: those that warned.
check(pol, key, check_ca) ==
    LET l == check_length(pol, key)
        a == check_algorithms(pol, key)
        e == check_expiration(pol, key)
        c == check_ca_signature(pol, key)
        W(o, name) == IF o.warned THEN {name} ELSE {}
        vla   == W(l, "length") \cup W(a, "algorithms")
        vlae  == vla \cup W(e, "expiration")
        rla   == And(And("True", l.result), a.result)
        rlae  == And(rla, e.result)
    IN  IF IsException(a)
        THEN [result |-> a.result, ran |-> {"length", "algorithms"},
              violations |-> W(l, "length")]
        ELSE IF IsException(e)
        THEN [result |-> e.result, ran |-> {"length", "algorithms", "expiration"},
              violations |-> vla]
        ELSE IF check_ca
        THEN [result |-> And(rlae, c.result),
              ran |-> {"length", "algorithms", "expiration", "ca_signature"},
              violations |-> vlae \cup W(c, "ca_signature")]
        ELSE [result |-> rlae, ran |-> {"length", "algorithms", "expiration"},
              violations |-> vlae]

\* The policies of the database: the mailing list's own and a second one
\* with another CA, no required expiration and a lower length.
Policies == {1, 2}

PolicyTable ==
    [p \in Policies |->
        IF p = 1 THEN Policy(1, 2, 1, <<"RSA">>)
                 ELSE Policy(2, 1, 0, <<"RSA", "DSA">>)]

\* MailingList.policy
MLPolicy == 1

-----------------------------------------------------------------------------
(* Objects *)

\* ReleaseKeyAssociation.__init__
ReleaseKeyAssociation(key, active) ==
    [key |-> key, is_active |-> active, policy_exception |-> FALSE]

\* What a list of "keys" can hold: a Key, or (Release.active_keys of a
\* Release without id) a ReleaseKeyAssociation, the one at position pos of
\* Release rel.
KeyObj(k) == [cls |-> "Key", key |-> k, rel |-> 0, pos |-> 0]

AssocObj(r, i) == [cls |-> "ReleaseKeyAssociation", key |-> 0, rel |-> r, pos |-> i]

Range(seq) == {seq[i] : i \in DOMAIN seq}

\* the positions of assocs that are in S, in order
Positions(assocs, S) ==
    SelectSeq([i \in 1 .. Len(assocs) |-> i], LAMBDA i : i \in S)

\* s without its element at position i
RemoveAt(s, i) == SubSeq(s, 1, i - 1) \o SubSeq(s, i + 1, Len(s))

-----------------------------------------------------------------------------
(* Release (batzenca/database/releases.py).  R is a Release, r the index   *)
(* by which `releases` holds it.                                           *)

\* Release.active_keys (property): without id the associations themselves,
\* with id the keys the database finds.
active_keys(R, r) ==
    LET A   == R.key_associations
        idx == Positions(A, {i \in DOMAIN A : A[i].is_active})
    IN  [j \in 1 .. Len(idx) |->
            IF R.id = None THEN AssocObj(r, idx[j])
                           ELSE KeyObj(R.key_associations[idx[j]].key)]

\* Release.inactive_keys (property)
inactive_keys(R, r) ==
    LET A   == R.key_associations
        idx == Positions(A, {i \in DOMAIN A : ~A[i].is_active})
    IN  [j \in 1 .. Len(idx) |-> KeyObj(R.key_associations[idx[j]].key)]

\* Release.prev (property): the Release before r in MailingList.releases
IndexOf(ml, r) == CHOOSE i \in DOMAIN ml : ml[i] = r

prev(ml, r) ==
    LET idx == IndexOf(ml, r)
    IN  IF idx > 1 THEN ml[idx - 1] ELSE None

\* Release._get_assoc: the position of the key's association (idx), or the
\* exception raised.  Keys have ids; a Release without id is searched in
\* memory, one with id through the database.
_get_assoc(R, k) ==
    LET A    == R.key_associations
        hits == Positions(A, {i \in DOMAIN A : A[i].key = k})
    IN  IF R.id = None
        THEN IF hits # <<>> THEN [err |-> "ok", idx |-> hits[1]]
                            ELSE [err |-> "ValueError", idx |-> 0]
        ELSE IF Len(hits) > 1 THEN [err |-> "RuntimeError", idx |-> 0]
             ELSE IF Len(hits) = 0 THEN [err |-> "ValueError", idx |-> 0]
             ELSE [err |-> "ok", idx |-> hits[1]]

\* Release.__contains__ for a Peer: "True", "False" or the exception.
\* Peers have ids.
contains_peer(R, p) ==
    LET A == R.key_associations
        n == Len(Positions(A, {i \in DOMAIN A : A[i].is_active /\ peer(A[i].key) = p}))
    IN  IF R.id = None THEN "RuntimeError"
        ELSE IF n = 0 THEN "False"
        ELSE IF n = 1 THEN "True"
        ELSE "RuntimeError"

\* Release.__init__ from the mailing list on, for the Release that will be
\* releases[r]: the Release as far as it was built, and "ok" or the
\* exception that ended the construction.  A ReleaseKeyAssociation takes a
\* Key only (relationship "Key"); inactive_keys = None cannot be iterated.
RECURSIVE AppendAssocs(_, _, _)
AppendAssocs(assocs, objs, active) ==
    IF objs = <<>> THEN [assocs |-> assocs, err |-> "ok"]
    ELSE IF Head(objs).cls # "Key" THEN [assocs |-> assocs, err |-> "OrmError"]
    ELSE AppendAssocs(Append(assocs, ReleaseKeyAssociation(Head(objs).key, active)),
                      Tail(objs), active)

ReleaseInit(date, active, inactive, policy) ==
    LET R0 == [date   |-> IF date = None THEN Today ELSE date,
               id     |-> None,
               policy |-> IF policy # None THEN policy ELSE MLPolicy,
               key_associations |-> <<>>]
        a  == AppendAssocs(<<>>, active, TRUE)
        i  == AppendAssocs(a.assocs, inactive.list, FALSE)
    IN  IF a.err # "ok"
        THEN [release |-> [R0 EXCEPT !.key_associations = a.assocs], err |-> a.err]
        ELSE IF inactive.none
        THEN [release |-> [R0 EXCEPT !.key_associations = a.assocs],
              err |-> "TypeError"]
        ELSE [release |-> [R0 EXCEPT !.key_associations = i.assocs], err |-> i.err]

\* deactivate_invalid that leaves associations with a policy exception alone
deactivate_invalid_skip_exceptions(R) ==
    [R EXCEPT !.key_associations =
        [i \in DOMAIN @ |->
            IF @[i].is_active /\ ~@[i].policy_exception
               /\ (~key_okay(@[i].key)
                   \/ ~is_signed_by(@[i].key, PolicyTable[R.policy].ca))
            THEN [@[i] EXCEPT !.is_active = FALSE]
            ELSE @[i]]]

\* Release.deactivate_invalid
deactivate_invalid(R) ==
    [R EXCEPT !.key_associations =
        [i \in DOMAIN @ |->
            IF @[i].is_active
            THEN IF ~key_okay(@[i].key)
                 THEN [@[i] EXCEPT !.is_active = FALSE]
                 ELSE IF ~is_signed_by(@[i].key, PolicyTable[R.policy].ca)
                      THEN [@[i] EXCEPT !.is_active = FALSE]
                      ELSE @[i]
            ELSE @[i]]]

\* the loop "old_release = old_release.prev" of delete_old_inactive_keys:
\* the Release reached, None, or AttributeError for None.prev
AttributeError == -1

RECURSIVE WalkBack(_, _, _)
WalkBack(ml, r, n) ==
    IF n = 0 THEN r
    ELSE IF r = None THEN AttributeError
    ELSE WalkBack(ml, prev(ml, r), n - 1)

\* the second loop of delete_old_inactive_keys: remove the association
\* _get_assoc finds for each key
RECURSIVE DeleteKeys(_, _)
DeleteKeys(R, keys) ==
    IF keys = <<>> THEN [release |-> R, err |-> "ok"]
    ELSE LET g == _get_assoc(R, Head(keys).key)
         IN  IF g.err # "ok" THEN [release |-> R, err |-> g.err]
             ELSE DeleteKeys([R EXCEPT !.key_associations = RemoveAt(@, g.idx)],
                             Tail(keys))

\* releasecount: a bool (False is 0, True is 1) or a number
ReleaseCount(rc) == IF rc.isbool /\ rc.n = 1 THEN DefaultReleaseCount ELSE rc.n

\* delete_old_inactive_keys without its loops: nothing is deleted
keep_old_inactive_keys(rels, ml, R, r, rc) == [release |-> R, err |-> "ok"]

\* Release.delete_old_inactive_keys on releases[r] (R) with the other
\* Releases as in rels: the Release afterwards and "ok" or the exception
delete_old_inactive_keys(rels, ml, R, r, rc) ==
    IF rc.n = 0 THEN [release |-> R, err |-> "ok"]
    ELSE
    LET old == WalkBack(ml, r, ReleaseCount(rc))
        inact == inactive_keys(R, r)
    IN  IF old = AttributeError THEN [release |-> R, err |-> "AttributeError"]
        ELSE IF inact = <<>> THEN [release |-> R, err |-> "ok"]
        ELSE IF old = None THEN [release |-> R, err |-> "AttributeError"]
        ELSE LET old_active  == active_keys(IF old = r THEN R ELSE rels[old], old)
                 delete_keys == SelectSeq(inact, LAMBDA key : key \notin Range(old_active))
             IN  DeleteKeys(R, delete_keys)

\* Release.add_exception: the flag of the association _get_assoc finds
add_exception(R, k) ==
    LET g == _get_assoc(R, k)
    IN  IF g.err # "ok" THEN [release |-> R, err |-> g.err]
        ELSE [release |-> [R EXCEPT !.key_associations[g.idx].policy_exception = TRUE],
              err |-> "ok"]

\* Release.has_exception: "True", "False" or the exception of _get_assoc
has_exception(R, k) ==
    LET g == _get_assoc(R, k)
    IN  IF g.err # "ok" THEN g.err
        ELSE IF R.key_associations[g.idx].policy_exception THEN "True" ELSE "False"

\* the last loop of inherit: for key in self.active_keys, if
\* self.has_exception(key) then release.add_exception(key)
RECURSIVE CopyExceptions(_, _, _)
CopyExceptions(self, N, keys) ==
    IF keys = <<>> THEN [release |-> N, err |-> "ok"]
    ELSE LET h == has_exception(self, Head(keys).key)
         IN  IF h = "False" THEN CopyExceptions(self, N, Tail(keys))
             ELSE IF h # "True" THEN [release |-> N, err |-> h]
             ELSE LET x == add_exception(N, Head(keys).key)
                  IN  IF x.err # "ok" THEN x
                      ELSE CopyExceptions(self, x.release, Tail(keys))

\* Release.inherit on releases[r]: the new Release (as far as it got), and
\* "ok" or the exception.  Release.__init__ has put the new Release into
\* MailingList.releases (backref of Release.mailinglist) as its last
\* element before anything else happens.
inherit(rels, ml, r, date, policy, deactivate, rc) ==
    LET self == rels[r]
        n    == Len(rels) + 1
        ml1  == Append(ml, n)
        c    == ReleaseInit(date, active_keys(self, r),
                            [none |-> FALSE, list |-> inactive_keys(self, r)],
                            IF policy = None THEN self.policy ELSE policy)
        N1   == IF deactivate THEN deactivate_invalid(c.release) ELSE c.release
        d    == delete_old_inactive_keys(Append(rels, N1), ml1, N1, n, rc)
        x    == CopyExceptions(self, d.release, active_keys(self, r))
    IN  IF c.err # "ok" THEN c
        ELSE IF d.err # "ok" THEN d
        ELSE x

\* Release.verify: Policy.check of the active associations in turn (all of
\* them, or those without exception); the keys checked, and "ok" or the
\* exception of the check that raised
RECURSIVE VerifyFrom(_, _, _)
VerifyFrom(R, i, ignore_exceptions) ==
    IF i > Len(R.key_associations) THEN [checked |-> <<>>, err |-> "ok"]
    ELSE LET assoc == R.key_associations[i]
             rest  == VerifyFrom(R, i + 1, ignore_exceptions)
         IN  IF assoc.is_active /\ (ignore_exceptions \/ ~assoc.policy_exception)
             THEN LET c == check(PolicyTable[R.policy], KeyFacts(assoc.key), TRUE)
                  IN  IF c.result \notin {"True", "False"}
                      THEN [checked |-> <<assoc.key>>, err |-> c.result]
                      ELSE [checked |-> <<assoc.key>> \o rest.checked, err |-> rest.err]
             ELSE rest

verify(R, ignore_exceptions) == VerifyFrom(R, 1, ignore_exceptions)

\* Peer.from_key: the peer that owns the key; what is no Key has no key id
\* (AttributeError), a Key without peer is not found (EntryNotFound)
from_key(obj) ==
    IF obj.cls # "Key" THEN "AttributeError"
    ELSE IF peer(obj.key) = None THEN "EntryNotFound"
    ELSE "ok"

Peers(objs) == {peer(o.key) : o \in objs}

\* diff whose keys_prev is other.active_keys alone
diff_without_inactive(self, r, other, o) ==
    LET other_active == Range(active_keys(other, o))
        keys_curr == Range(active_keys(self, r))
        keys_out  == other_active \ keys_curr
        keys_in   == keys_curr \ other_active
        mapped    == other_active \cup keys_curr
    IN  IF \E x \in mapped : from_key(x) # "ok"
        THEN [err |-> "AttributeError", keys_in |-> {}, keys_out |-> {},
              peers_joined |-> {}, peers_changed |-> {}, peers_left |-> {}]
        ELSE [err           |-> "ok",
              keys_in       |-> keys_in,
              keys_out      |-> keys_out,
              peers_joined  |-> Peers(keys_curr) \ Peers(other_active),
              peers_changed |-> Peers(keys_in) \cap Peers(keys_out),
              peers_left    |-> Peers(other_active) \ Peers(keys_curr)]

\* Release.diff: the five sets, and "ok" or the exception of Peer.from_key
diff(self, r, other, o) ==
    LET other_active == Range(active_keys(other, o))
        keys_prev == other_active \cup Range(inactive_keys(self, r))
        keys_curr == Range(active_keys(self, r))
        keys_out  == keys_prev \ keys_curr
        keys_in   == keys_curr \ keys_prev
        mapped    == other_active \cup keys_curr \cup keys_in \cup keys_out
        peers_prev == Peers(other_active)
        peers_curr == Peers(keys_curr)
        peers_in   == Peers(keys_in)
        peers_out  == Peers(keys_out)
        Empty == [err |-> "ok", keys_in |-> {}, keys_out |-> {}, peers_joined |-> {},
                  peers_changed |-> {}, peers_left |-> {}]
    IN  IF \E x \in mapped : from_key(x) = "AttributeError"
        THEN [Empty EXCEPT !.err = "AttributeError"]
        ELSE IF \E x \in mapped : from_key(x) = "EntryNotFound"
        THEN [Empty EXCEPT !.err = "EntryNotFound"]
        ELSE [err           |-> "ok",
              keys_in       |-> keys_in,
              keys_out      |-> keys_out,
              peers_joined  |-> peers_curr \ peers_prev,
              peers_changed |-> peers_in \cap peers_out,
              peers_left    |-> peers_prev \ peers_curr]

\* add_key without the test "key.peer in self"
add_key_without_peer_test(R, k, active, chk) ==
    LET c == check(PolicyTable[R.policy], KeyFacts(k), TRUE)
    IN  IF peer(k) = None THEN [release |-> R, err |-> "ValueError"]
        ELSE IF chk /\ active /\ c.result \notin {"True", "False"}
        THEN [release |-> R, err |-> c.result]
        ELSE [release |-> [R EXCEPT !.key_associations =
                              Append(@, ReleaseKeyAssociation(k, active))],
              err |-> "ok"]

\* Release.add_key: the Release afterwards, and "ok" or the exception
add_key(R, k, active, chk) ==
    LET has == IF active THEN contains_peer(R, peer(k)) ELSE "False"
        c  == check(PolicyTable[R.policy], KeyFacts(k), TRUE)
    IN  IF peer(k) = None THEN [release |-> R, err |-> "ValueError"]
        ELSE IF has = "True" THEN [release |-> R, err |-> "ValueError"]
        ELSE IF has # "False" THEN [release |-> R, err |-> has]
        ELSE IF chk /\ active /\ c.result \notin {"True", "False"}
        THEN [release |-> R, err |-> c.result]
        ELSE [release |-> [R EXCEPT !.key_associations =
                              Append(@, ReleaseKeyAssociation(k, active))],
              err |-> "ok"]

\* Release.publish with previous = None: the date is set first; then
\* verify, the roster sorted by key.name (an association has no name), and
\* the diff against self.prev
publish(rels, ml, r, chk, testrun) ==
    LET R  == IF testrun THEN rels[r] ELSE [rels[r] EXCEPT !.date = Today]
        v  == verify(R, FALSE)
        p  == prev(ml, r)
        d  == diff(R, r, rels[p], p)
    IN  IF chk /\ v.err # "ok" THEN [release |-> R, err |-> v.err]
        ELSE IF \E x \in Range(active_keys(R, r)) : x.cls # "Key"
        THEN [release |-> R, err |-> "AttributeError"]
        ELSE IF p # None /\ d.err # "ok" THEN [release |-> R, err |-> d.err]
        ELSE [release |-> R, err |-> "ok"]

-----------------------------------------------------------------------------
(* The inputs of the calls *)

\* lists of at most n keys, each key once and in the order of the key ring
Ascending(l) == \A i, j \in DOMAIN l : i < j => l[i] < l[j]

KeyLists(n) ==
    {l \in UNION {[1 .. m -> Keys] : m \in 0 .. n} : Ascending(l)}

ToObjs(l) == [i \in DOMAIN l |-> KeyObj(l[i])]

\* active_keys: a list
ActiveArgs == KeyLists(MaxInitKeys)

\* inactive_keys: a list, or None (the default)
InactiveArgs ==
    {[none |-> FALSE, list |-> ToObjs(l)] : l \in KeyLists(MaxInitKeys)}
        \cup {[none |-> TRUE, list |-> <<>>]}

\* releasecount / delete_old_inactive_keys: False, True or a depth
ReleaseCountArgs ==
    {[isbool |-> TRUE, n |-> 0], [isbool |-> TRUE, n |-> 1]}
        \cup {[isbool |-> FALSE, n |-> d] : d \in 1 .. MaxDepth}

-----------------------------------------------------------------------------
(* The calls *)

Result(op, self, result) == [op |-> op, self |-> self, result |-> result]

Init ==
    /\ releases = <<>>
    /\ mlreleases = <<>>
    /\ ret = Result("none", 0, "ok")
    /\ calls = 0

\* one more call
Call ==
    /\ calls < MaxCalls
    /\ calls' = calls + 1

\* Release(mailinglist, date, active_keys, inactive_keys, policy)
NewRelease(date, active, inactive, policy) ==
    LET c == ReleaseInit(date, ToObjs(active), inactive, policy)
        n == Len(releases) + 1
    IN  /\ Call
        /\ n <= MaxReleases
        /\ Len(active) + Len(inactive.list) <= MaxInitKeys
        /\ releases' = Append(releases, c.release)
        /\ mlreleases' = Append(mlreleases, n)
        /\ ret' = Result("Release", n, c.err)

\* session.db_session.commit(): every Release reachable from the mailing
\* list is stored and gets its id; MailingList.releases is loaded again,
\* ordered by Release.date (Releases of one date in any order).  The
\* primary key of an association is (key, release).
NoDuplicateKey(R) ==
    \A i, j \in DOMAIN R.key_associations :
        R.key_associations[i].key = R.key_associations[j].key => i = j

OrderedByDate(rels, ml) ==
    \A i, j \in DOMAIN ml : i < j => rels[ml[i]].date <= rels[ml[j]].date

Orders(n) == {s \in [1 .. n -> 1 .. n] : \A i, j \in 1 .. n : s[i] = s[j] => i = j}

Commit ==
    /\ Call
    /\ releases # <<>>
    /\ \A r \in DOMAIN releases : NoDuplicateKey(releases[r])
    /\ releases' = [r \in DOMAIN releases |-> [releases[r] EXCEPT !.id = r]]
    /\ mlreleases' \in {s \in Orders(Len(mlreleases)) : OrderedByDate(releases, s)}
    /\ ret' = Result("commit", 0, "ok")

\* inherit whose new Release is not put into MailingList.releases
InheritUnlisted(r, date, policy, deactivate, rc) ==
    LET x == inherit(releases, mlreleases, r, date, policy, deactivate, rc)
        n == Len(releases) + 1
    IN  /\ Call
        /\ n <= MaxReleases
        /\ releases' = Append(releases, x.release)
        /\ UNCHANGED mlreleases
        /\ ret' = Result("inherit", r, x.err) @@ [new |-> n, rc |-> rc]

\* releases[r].inherit(date, policy, deactivate_invalid, delete_old_inactive_keys)
Inherit(r, date, policy, deactivate, rc) ==
    LET x == inherit(releases, mlreleases, r, date, policy, deactivate, rc)
        n == Len(releases) + 1
    IN  /\ Call
        /\ n <= MaxReleases
        /\ releases' = Append(releases, x.release)
        /\ mlreleases' = Append(mlreleases, n)
        /\ ret' = Result("inherit", r, x.err) @@ [new |-> n, rc |-> rc]

\* releases[r].add_key(k, active, check)
AddKey(r, k, active, chk) ==
    LET x == add_key(releases[r], k, active, chk)
    IN  /\ Call
        /\ Len(releases[r].key_associations) < MaxAssocs
        /\ releases' = [releases EXCEPT ![r] = x.release]
        /\ UNCHANGED mlreleases
        /\ ret' = Result("add_key", r, x.err) @@ [key |-> k, active |-> active]

\* releases[r].add_exception(k)
AddException(r, k) ==
    LET x == add_exception(releases[r], k)
    IN  /\ Call
        /\ releases' = [releases EXCEPT ![r] = x.release]
        /\ UNCHANGED mlreleases
        /\ ret' = Result("add_exception", r, x.err) @@ [key |-> k]

\* releases[r].deactivate_invalid()
DeactivateInvalid(r) ==
    /\ Call
    /\ releases' = [releases EXCEPT ![r] = deactivate_invalid(@)]
    /\ UNCHANGED mlreleases
    /\ ret' = Result("deactivate_invalid", r, "ok") @@ [before |-> releases[r]]

\* releases[r].delete_old_inactive_keys(rc)
DeleteOldInactiveKeys(r, rc) ==
    LET x == delete_old_inactive_keys(releases, mlreleases, releases[r], r, rc)
    IN  /\ Call
        /\ releases' = [releases EXCEPT ![r] = x.release]
        /\ UNCHANGED mlreleases
        /\ ret' = Result("delete_old_inactive_keys", r, x.err) @@
                  [rc |-> rc, before |-> releases[r]]

\* releases[r].publish(None, check, testrun)
Publish(r, chk, testrun) ==
    LET x == publish(releases, mlreleases, r, chk, testrun)
    IN  /\ Call
        /\ releases' = [releases EXCEPT ![r] = x.release]
        /\ UNCHANGED mlreleases
        /\ ret' = Result("publish", r, x.err)

\* releases[r].diff(releases[o])
Diff(r, o) ==
    LET x == diff(releases[r], r, releases[o], o)
    IN  /\ Call
        /\ UNCHANGED <<releases, mlreleases>>
        /\ ret' = Result("diff", r, x.err) @@ [other |-> o, value |-> x]

\* releases[r].verify(ignore_exceptions)
Verify(r, ignore_exceptions) ==
    LET v == verify(releases[r], ignore_exceptions)
    IN  /\ Call
        /\ UNCHANGED <<releases, mlreleases>>
        /\ ret' = Result("verify", r, v.err) @@
                  [ignore_exceptions |-> ignore_exceptions, checked |-> v.checked]

Next ==
    \/ \E date \in Dates \cup {None}, active \in ActiveArgs,
          inactive \in InactiveArgs, policy \in Policies \cup {None} :
            NewRelease(date, active, inactive, policy)
    \/ Commit
    \/ \E r \in DOMAIN releases, date \in Dates \cup {None},
          policy \in Policies \cup {None}, deactivate \in BOOLEAN,
          rc \in ReleaseCountArgs :
            Inherit(r, date, policy, deactivate, rc)
    \/ \E r \in DOMAIN releases, k \in AllKeys, active \in BOOLEAN, chk \in BOOLEAN :
            AddKey(r, k, active, chk)
    \/ \E r \in DOMAIN releases, k \in Keys : AddException(r, k)
    \/ \E r \in DOMAIN releases : DeactivateInvalid(r)
    \/ \E r \in DOMAIN releases, rc \in ReleaseCountArgs : DeleteOldInactiveKeys(r, rc)
    \/ \E r \in DOMAIN releases, chk \in BOOLEAN, testrun \in BOOLEAN :
            Publish(r, chk, testrun)
    \/ \E r \in DOMAIN releases, o \in DOMAIN releases : Diff(r, o)
    \/ \E r \in DOMAIN releases, ignore_exceptions \in BOOLEAN :
            Verify(r, ignore_exceptions)

Spec == Init /\ [][Next]_vars

-----------------------------------------------------------------------------
(* Policy.check on its own: every policy and key of the sets below *)

MaxKeyLen   == 2      \* key lengths and minimum lengths are 1..MaxKeyLen
MaxLifespan == 1      \* lifespans are -1..MaxLifespan days

\* a policy names at least one algorithm: what the empty list splits into
\* depends on gpgobj.str_to_alg
PolicyArgs ==
    {Policy(ca, kl, ls, algs) :
        ca \in CAs, kl \in 1 .. MaxKeyLen, ls \in -1 .. MaxLifespan,
        algs \in {<<"RSA">>, <<"RSA", "DSA">>}}

KeyArgs ==
    [len        : 1 .. MaxKeyLen,
     expires    : {None} \cup (Today .. Today + MaxLifespan + 1),
     algorithms : {{1}, {17}, {1, 17}},
     signers    : SUBSET CAs]

\* a policy and a key to check
InitPolicy ==
    /\ releases = <<>>
    /\ mlreleases = <<>>
    /\ calls = 0
    /\ ret \in {Result("args", 0, "ok") @@ [policy |-> pol, key |-> key] :
                    pol \in PolicyArgs, key \in KeyArgs}

\* policy.check(key, check_ca_signature)
PolicyCheck(check_ca) ==
    LET c == check(ret.policy, ret.key, check_ca)
    IN  /\ ret.op = "args"
        /\ ret' = Result("check", 0, c.result) @@
                  [policy |-> ret.policy, key |-> ret.key,
                   check_ca_signature |-> check_ca,
                   ran |-> c.ran, violations |-> c.violations]
        /\ UNCHANGED <<releases, mlreleases, calls>>

\* policy.check_expiration(key)
PolicyCheckExpiration ==
    LET e == check_expiration(ret.policy, ret.key)
    IN  /\ ret.op = "args"
        /\ ret' = Result("check_expiration", 0, e.result) @@
                  [policy |-> ret.policy, key |-> ret.key, warned |-> e.warned]
        /\ UNCHANGED <<releases, mlreleases, calls>>

NextPolicy ==
    \/ \E check_ca \in BOOLEAN : PolicyCheck(check_ca)
    \/ PolicyCheckExpiration

SpecPolicy == InitPolicy /\ [][NextPolicy]_vars

-----------------------------------------------------------------------------
(* A stored Release and the Release derived from it: A = releases[1] was   *)
(* built by Release(...) and committed; B = A.inherit(...) is committed,   *)
(* has its invalid keys deactivated, gets new keys and is diffed against A. *)

\* the Releases Release(...) builds without exception and commit() stores
StoredReleases ==
    LET Built(a) ==
            {ReleaseInit(date, ToObjs(a), i, p) :
                date \in Dates, p \in Policies,
                i \in {j \in InactiveArgs : Len(a) + Len(j.list) <= MaxInitKeys}}
    IN  {[c.release EXCEPT !.id = 1] :
            c \in {x \in UNION {Built(a) : a \in ActiveArgs} :
                      x.err = "ok" /\ NoDuplicateKey(x.release)}}

InitStored ==
    /\ releases \in {<<A>> : A \in StoredReleases}
    /\ mlreleases = <<1>>
    /\ ret = Result("stored", 1, "ok")
    /\ calls = 0

\* A.add_exception(k)
StoredAddException(k) ==
    LET x == add_exception(releases[1], k)
    IN  /\ ret.op \in {"stored", "add_exception"}
        /\ releases' = [releases EXCEPT ![1] = x.release]
        /\ UNCHANGED <<mlreleases, calls>>
        /\ ret' = Result("add_exception", 1, x.err) @@ [key |-> k]

\* B = A.inherit(date, policy, deactivate_invalid, delete_old_inactive_keys)
StoredInherit(date, policy, deactivate, rc) ==
    LET x == inherit(releases, mlreleases, 1, date, policy, deactivate, rc)
    IN  /\ ret.op \in {"stored", "add_exception"}
        /\ releases' = Append(releases, x.release)
        /\ mlreleases' = Append(mlreleases, 2)
        /\ UNCHANGED calls
        /\ ret' = Result("inherit", 1, x.err) @@
                  [new |-> 2, rc |-> rc, deactivate |-> deactivate,
                   before |-> releases[1]]

\* session.db_session.commit() after inherit returned B; base: B as stored
StoredCommit ==
    /\ ret.op = "inherit"
    /\ ret.result = "ok"
    /\ \A r \in DOMAIN releases : NoDuplicateKey(releases[r])
    /\ releases' = [r \in DOMAIN releases |-> [releases[r] EXCEPT !.id = r]]
    /\ mlreleases' \in {s \in Orders(Len(mlreleases)) : OrderedByDate(releases, s)}
    /\ UNCHANGED calls
    /\ ret' = Result("commit", 2, "ok") @@ [base |-> [releases[2] EXCEPT !.id = 2]]

\* B.deactivate_invalid()
StoredDeactivateInvalid ==
    /\ ret.op = "commit"
    /\ releases' = [releases EXCEPT ![2] = deactivate_invalid(@)]
    /\ UNCHANGED <<mlreleases, calls>>
    /\ ret' = Result("deactivate_invalid", 2, "ok") @@ [base |-> ret.base]

\* B.add_key(k, True, check) for a key B has no association of
StoredAddKey(k, chk) ==
    LET x == add_key(releases[2], k, TRUE, chk)
    IN  /\ ret.op \in {"commit", "deactivate_invalid", "add_key"}
        /\ Len(releases[2].key_associations) < MaxAssocs
        /\ \A i \in DOMAIN releases[2].key_associations :
                releases[2].key_associations[i].key # k
        /\ releases' = [releases EXCEPT ![2] = x.release]
        /\ UNCHANGED <<mlreleases, calls>>
        /\ ret' = Result("add_key", 2, x.err) @@
                  [key |-> k, active |-> TRUE, base |-> ret.base]

\* B.diff(A)
StoredDiff ==
    LET x == diff(releases[2], 2, releases[1], 1)
    IN  /\ ret.op \in {"commit", "deactivate_invalid", "add_key"}
        /\ UNCHANGED <<releases, mlreleases, calls>>
        /\ ret' = Result("diff", 2, x.err) @@
                  [other |-> 1, value |-> x, base |-> ret.base]

NextStored ==
    \/ \E k \in Keys : StoredAddException(k)
    \/ \E date \in Dates \cup {None}, policy \in Policies \cup {None},
          deactivate \in BOOLEAN, rc \in ReleaseCountArgs :
            StoredInherit(date, policy, deactivate, rc)
    \/ StoredCommit
    \/ StoredDeactivateInvalid
    \/ \E k \in AllKeys, chk \in BOOLEAN : StoredAddKey(k, chk)
    \/ StoredDiff

SpecStored == InitStored /\ [][NextStored]_vars

-----------------------------------------------------------------------------
(* A chain of Releases: the first was built by Release(...) and committed, *)
(* every other one is derived from the last by inherit with the pruning    *)
(* depth of the chain (ret.depth) and committed; between two inherits the  *)
(* last Release gets keys and policy exceptions.                           *)

MaxChain == 3      \* Releases of a chain

\* the last Release of the chain
Last == Len(releases)

InitChain ==
    /\ releases \in {<<A>> : A \in {S \in StoredReleases : S.date = 1}}
    /\ mlreleases = <<1>>
    /\ calls = 0
    /\ ret \in {Result("stored", 1, "ok") @@ [depth |-> n] : n \in 1 .. MaxDepth}

\* the last call left a stored Release at the end of the chain
ChainIsStored ==
    /\ ret.op \in {"stored", "commit", "add_key", "add_exception"}
    /\ releases[Last].id # None

\* last.add_key(k, True, check) for a key the last Release has no
\* association of
ChainAddKey(k, chk) ==
    LET x == add_key(releases[Last], k, TRUE, chk)
    IN  /\ ChainIsStored
        /\ Len(releases[Last].key_associations) < MaxAssocs
        /\ \A i \in DOMAIN releases[Last].key_associations :
                releases[Last].key_associations[i].key # k
        /\ releases' = [releases EXCEPT ![Last] = x.release]
        /\ UNCHANGED <<mlreleases, calls>>
        /\ ret' = Result("add_key", Last, x.err) @@
                  [key |-> k, active |-> TRUE, depth |-> ret.depth]

\* last.add_exception(k) for a key of the last Release
ChainAddException(k) ==
    LET x == add_exception(releases[Last], k)
    IN  /\ ChainIsStored
        /\ \E i \in DOMAIN releases[Last].key_associations :
                /\ releases[Last].key_associations[i].key = k
                /\ ~releases[Last].key_associations[i].policy_exception
        /\ releases' = [releases EXCEPT ![Last] = x.release]
        /\ UNCHANGED <<mlreleases, calls>>
        /\ ret' = Result("add_exception", Last, x.err) @@
                  [key |-> k, depth |-> ret.depth]

\* last.inherit(date, policy, deactivate_invalid, depth), dated one day
\* after the last Release
ChainInherit(policy, deactivate) ==
    LET rc == [isbool |-> FALSE, n |-> ret.depth]
        x  == inherit(releases, mlreleases, Last, releases[Last].date + 1,
                      policy, deactivate, rc)
    IN  /\ ChainIsStored
        /\ Last < MaxChain
        /\ releases' = Append(releases, x.release)
        /\ mlreleases' = Append(mlreleases, Last + 1)
        /\ UNCHANGED calls
        /\ ret' = Result("inherit", Last, x.err) @@
                  [new |-> Last + 1, rc |-> rc, deactivate |-> deactivate,
                   before |-> releases[Last], depth |-> ret.depth]

\* session.db_session.commit() after inherit returned
ChainCommit ==
    /\ ret.op = "inherit"
    /\ ret.result = "ok"
    /\ \A r \in DOMAIN releases : NoDuplicateKey(releases[r])
    /\ releases' = [r \in DOMAIN releases |-> [releases[r] EXCEPT !.id = r]]
    /\ mlreleases' \in {s \in Orders(Len(mlreleases)) : OrderedByDate(releases, s)}
    /\ UNCHANGED calls
    /\ ret' = Result("commit", Last, "ok") @@ [depth |-> ret.depth]

NextChain ==
    \/ \E k \in AllKeys, chk \in BOOLEAN : ChainAddKey(k, chk)
    \/ \E k \in Keys : ChainAddException(k)
    \/ \E policy \in Policies \cup {None}, deactivate \in BOOLEAN :
            ChainInherit(policy, deactivate)
    \/ ChainCommit

SpecChain == InitChain /\ [][NextChain]_vars

-----------------------------------------------------------------------------
(* Properties *)

Assocs(r) == releases[r].key_associations

\* the keys of the active (inactive) associations of a Release
ActiveKeySet(R) ==
    {R.key_associations[i].key : i \in {j \in DOMAIN R.key_associations :
                                            R.key_associations[j].is_active}}

InactiveKeySet(R) ==
    {R.key_associations[i].key : i \in {j \in DOMAIN R.key_associations :
                                            ~R.key_associations[j].is_active}}

\* C1: no Release has two active associations whose keys belong to the same
\* peer.
OneActiveKeyPerPeer ==
    \A r \in DOMAIN releases : \A i, j \in DOMAIN Assocs(r) :
        (/\ Assocs(r)[i].is_active
         /\ Assocs(r)[j].is_active
         /\ peer(Assocs(r)[i].key) = peer(Assocs(r)[j].key)) => i = j

\* C2: no Release holds two associations for the same key.
OneAssociationPerKey ==
    \A r \in DOMAIN releases : \A i, j \in DOMAIN Assocs(r) :
        Assocs(r)[i].key = Assocs(r)[j].key => i = j

\* C3: no two Releases of the mailing list have the same date.
OneReleasePerDate ==
    \A i, j \in DOMAIN mlreleases :
        releases[mlreleases[i]].date = releases[mlreleases[j]].date => i = j

\* C4: prev of every Release is the Release with the greatest date strictly
\* earlier than its own, and None exactly when no Release is earlier (stated
\* for mailing lists whose Releases have different dates, where the order by
\* date is total).
PrevIsDatePredecessor ==
    OneReleasePerDate =>
    \A r \in DOMAIN releases :
        LET p       == prev(mlreleases, r)
            earlier == {q \in DOMAIN releases : releases[q].date < releases[r].date}
        IN  IF earlier = {} THEN p = None
            ELSE /\ p \in earlier
                 /\ \A q \in earlier : releases[q].date <= releases[p].date

\* C5: add_key of a key without peer, or of an active key whose peer has an
\* active key in the Release, fails and leaves every Release as it was.
PeerIsActive(R, p) ==
    \E i \in DOMAIN R.key_associations :
        R.key_associations[i].is_active /\ peer(R.key_associations[i].key) = p

AddKeyRejectsInvalid ==
    [][(/\ ret'.op = "add_key"
        /\ \/ peer(ret'.key) = None
           \/ ret'.active /\ PeerIsActive(releases[ret'.self], peer(ret'.key)))
       => (/\ ret'.result # "ok"
           /\ releases' = releases
           /\ mlreleases' = mlreleases)]_vars

\* a second active key of a peer was refused
AddKeyRefusedSecondKey ==
    /\ ret.op = "add_key"
    /\ ret.result = "ValueError"
    /\ ret.active
    /\ peer(ret.key) # None
    /\ ret.key \notin ActiveKeySet(releases[ret.self])
    /\ PeerIsActive(releases[ret.self], peer(ret.key))

InheritKeepsActiveKeys ==
    (/\ ret.op = "inherit"
     /\ \/ ret.rc.n = 0
        \/ IndexOf(mlreleases, ret.new) > ReleaseCount(ret.rc)
     /\ \A k \in ActiveKeySet(releases[ret.self]) :
            /\ key_okay(k)
            /\ is_signed_by(k, PolicyTable[releases[ret.new].policy].ca))
    => /\ ret.result = "ok"
       /\ ActiveKeySet(releases[ret.new]) = ActiveKeySet(releases[ret.self])

\* C8: after deactivate_invalid an association is active iff it was active
\* and its key is usable and signed by the CA of the Release's policy,
\* policy exception or not; keys, exception flags, the number of
\* associations, the other Releases and the mailing list stay as they were.
DeactivateInvalidIsExact ==
    [][ret'.op = "deactivate_invalid" =>
        LET r == ret'.self
            A == releases[r].key_associations
            B == releases'[r].key_associations
        IN  /\ Len(B) = Len(A)
            /\ \A i \in DOMAIN A :
                /\ B[i].key = A[i].key
                /\ B[i].policy_exception = A[i].policy_exception
                /\ B[i].is_active <=>
                       (/\ A[i].is_active
                        /\ key_okay(A[i].key)
                        /\ is_signed_by(A[i].key, PolicyTable[releases[r].policy].ca))
            /\ DOMAIN releases' = DOMAIN releases
            /\ \A q \in DOMAIN releases : q # r => releases'[q] = releases[q]
            /\ releases'[r].date = releases[r].date
            /\ releases'[r].policy = releases[r].policy
            /\ releases'[r].id = releases[r].id
            /\ mlreleases' = mlreleases]_vars

\* deactivate_invalid deactivated a key with a policy exception and kept a
\* valid key active
DeactivatedDespiteException ==
    /\ ret.op = "deactivate_invalid"
    /\ \E i \in DOMAIN ret.before.key_associations :
        /\ ret.before.key_associations[i].is_active
        /\ ret.before.key_associations[i].policy_exception
        /\ ~Assocs(ret.self)[i].is_active
    /\ \E i \in DOMAIN ret.before.key_associations :
        /\ ret.before.key_associations[i].is_active
        /\ Assocs(ret.self)[i].is_active

\* C9: delete_old_inactive_keys(n) on a Release with at least n predecessors
\* removes exactly the inactive associations whose key is not active in the
\* Release n places back (stated for a Release that holds no key twice).
DeleteOldIsExact ==
    (/\ ret.op = "delete_old_inactive_keys"
     /\ NoDuplicateKey(ret.before)
     /\ ret.rc.n > 0
     /\ IndexOf(mlreleases, ret.self) > ReleaseCount(ret.rc))
    => LET old == WalkBack(mlreleases, ret.self, ReleaseCount(ret.rc))
       IN  /\ ret.result = "ok"
           /\ Assocs(ret.self) =
                SelectSeq(ret.before.key_associations,
                          LAMBDA a : a.is_active \/ a.key \in ActiveKeySet(releases[old]))

\* C10: check returns true iff every enabled sub-check returns true; every
\* enabled sub-check is run, and the violations signalled are those of the
\* enabled sub-checks that fail.
SubCheck(name, pol, key) ==
    CASE name = "length"       -> check_length(pol, key)
      [] name = "algorithms"   -> check_algorithms(pol, key)
      [] name = "expiration"   -> check_expiration(pol, key)
      [] name = "ca_signature" -> check_ca_signature(pol, key)

CheckIsConjunction ==
    ret.op = "check" =>
        LET enabled == {"length", "algorithms", "expiration"} \cup
                       (IF ret.check_ca_signature THEN {"ca_signature"} ELSE {})
        IN  /\ (ret.result = "True") <=>
                   \A n \in enabled : SubCheck(n, ret.policy, ret.key).result = "True"
            /\ ret.ran = enabled
            /\ ret.violations =
                   {n \in enabled : SubCheck(n, ret.policy, ret.key).warned}

\* C11: under key_lifespan <= 0 check_expiration returns true without a
\* violation for every key; under key_lifespan > 0 it returns false with a
\* violation exactly when the key has no expiration date or one later than
\* today + key_lifespan, and true without a violation otherwise.
ExpirationFollowsLifespan ==
    ret.op = "check_expiration" =>
        LET fails == /\ ret.policy.key_lifespan > 0
                     /\ \/ ret.key.expires = None
                        \/ ret.key.expires > Today + ret.policy.key_lifespan
        IN  /\ ret.result = (IF fails THEN "False" ELSE "True")
            /\ ret.warned = fails

\* the keys as the Key objects a stored Release returns
KeyObjs(keys) == {KeyObj(k) : k \in keys}

\* B.diff(A) where B = A.inherit(...) was stored as ret.base: D, the keys
\* active in the base and no longer active in B; N, the keys active in B
\* that the base had no association of
DeactivatedKeys == ActiveKeySet(ret.base) \ ActiveKeySet(releases[2])

AddedKeys ==
    ActiveKeySet(releases[2]) \ (ActiveKeySet(ret.base) \cup InactiveKeySet(ret.base))

PeersOf(keys) == {peer(k) : k \in keys}

\* C13: peers_joined and peers_left are the differences of the
\* peers of keys_curr and the peers of keys_prev, keys_prev being
\* other.active_keys united with self.inactive_keys.
DiffPeersOfKeysPrev ==
    (ret.op = "diff" /\ ret.result = "ok") =>
        LET keys_prev == ActiveKeySet(releases[ret.other])
                            \cup InactiveKeySet(releases[ret.self])
            keys_curr == ActiveKeySet(releases[ret.self])
        IN  /\ ret.value.peers_joined = PeersOf(keys_curr) \ PeersOf(keys_prev)
            /\ ret.value.peers_left = PeersOf(keys_prev) \ PeersOf(keys_curr)

\* C14: the peers_changed of a diff that returns are disjoint from its
\* peers_joined and from its peers_left.
PeersChangedDisjoint ==
    (ret.op = "diff" /\ ret.result = "ok") =>
        /\ ret.value.peers_changed \cap ret.value.peers_joined = {}
        /\ ret.value.peers_changed \cap ret.value.peers_left = {}

\* the keys of the associations of a Release that carry a policy exception
ExceptionKeySet(R) ==
    {R.key_associations[i].key : i \in {j \in DOMAIN R.key_associations :
                                            R.key_associations[j].policy_exception}}

\* C15: R.inherit(...) returns a Release whose associations with a policy
\* exception are those of the keys that are active in R with an exception.
InheritCarriesExceptions ==
    ret.op = "inherit" =>
        /\ ret.result = "ok"
        /\ ExceptionKeySet(releases[ret.new]) =
               ActiveKeySet(ret.before) \cap ExceptionKeySet(ret.before)

\* inherit leaves the Releases that exist as they are
InheritKeepsReleases ==
    /\ Len(releases') = Len(releases) + 1
    /\ \A q \in DOMAIN releases : releases'[q] = releases[q]

\* C16 as claimed: inherit leaves the existing Releases as they are and does
\* not put the new Release into the release sequence of the mailing list.
InheritInsertsNothing ==
    [][ret'.op = "inherit" =>
        (InheritKeepsReleases /\ mlreleases' = mlreleases)]_vars

\* C16 as amended: inherit leaves the existing Releases as they are and the
\* new Release is the last element of the mailing list's releases.
InheritAppendsToMailingList ==
    [][ret'.op = "inherit" =>
        (InheritKeepsReleases /\ mlreleases' = Append(mlreleases, ret'.new))]_vars

\* inherit returned a Release with associations, and it is the last of the
\* mailing list's releases
InheritedReleaseIsListed ==
    /\ ret.op = "inherit"
    /\ ret.result = "ok"
    /\ releases[ret.new].key_associations # <<>>
    /\ mlreleases[Len(mlreleases)] = ret.new
    /\ prev(mlreleases, ret.new) = ret.self

\* C17: verify checks, in order, the keys of the associations that are
\* active and (unless ignore_exceptions) carry no policy exception, all of
\* them whatever the checks find, and returns.
VerifyChecksActive ==
    ret.op = "verify" =>
        LET A == releases[ret.self].key_associations
            due == Positions(A, {i \in DOMAIN A :
                                   /\ A[i].is_active
                                   /\ ret.ignore_exceptions \/ ~A[i].policy_exception})
        IN  /\ ret.result = "ok"
            /\ ret.checked = [j \in 1 .. Len(due) |-> A[due[j]].key]

\* the keys a Release has an association of
KeySet(R) == {R.key_associations[i].key : i \in DOMAIN R.key_associations}

\* C18: inherit with deactivate_invalid on and delete_old_inactive_keys=True
\* (depth 5) on a stored Release returns the new Release although the
\* history is shorter than 5 Releases, and the new Release has an
\* association of every key of the Release it was derived from.
InheritDefaultsComplete ==
    (/\ ret.op = "inherit"
     /\ ret.deactivate
     /\ ret.rc.isbool
     /\ ret.rc.n = 1
     /\ Len(mlreleases) - 1 < DefaultReleaseCount)
        => /\ ret.result = "ok"
           /\ KeySet(releases[ret.new]) = KeySet(ret.before)

\* the Releases of the chain: every Release but one whose inherit raised
ChainReleases ==
    IF ret.op = "inherit" /\ ret.result # "ok"
    THEN 1 .. (Len(releases) - 1)
    ELSE 1 .. Len(releases)

\* the last Release of the chain in which key k is active (None: in none)
LastActive(k) ==
    LET at == {r \in ChainReleases : k \in ActiveKeySet(releases[r])}
    IN  IF at = {} THEN None ELSE CHOOSE r \in at : \A q \in at : q <= r

ActiveIn(k) == {r \in ChainReleases : k \in ActiveKeySet(releases[r])}

\* key k was active in the n Releases up to its last one, L, and in no
\* Release that is not next to another one where it was active
ActiveForDepth(k) ==
    LET L == LastActive(k)
    IN  /\ L # None
        /\ L - ret.depth + 1 >= 1
        /\ \A r \in (L - ret.depth + 1) .. L : r \in ActiveIn(k)
        /\ \A r \in ActiveIn(k) : \A q \in r .. L : q \in ActiveIn(k)

====
